---- MODULE Spec2Model ----
(***************************************************************************)
(* Model of the vault pipeline of home-bot:                                *)
(*   scripts/vault/index_vault.py   chunk_md, index_vault                  *)
(*   scripts/vault/query_vault.py   query, __main__                        *)
(*   microclaw.data/skills/query-vault/query_vault.py   query, __main__    *)
(*                                                                         *)
(* A text is a sequence of one-character strings.  SpecChunk runs chunk_md *)
(* one loop iteration at a time on bounded inputs; Spec runs index_vault   *)
(* and the query commands against a vault and a vector store.              *)
(***************************************************************************)
EXTENDS Integers, Sequences, FiniteSets, TLC

\* ---------------------------------------------------------------- bounds
MaxLen == 4          \* longest enumerated input text of chunk_md
MaxChunk == 3        \* largest enumerated chunk_size / overlap of chunk_md
MaxIter == 4         \* iterations explored of a chunk_md loop that cannot end
LongLen == 801       \* length of the vault's long document (two chunks)
MaxRuns == 2         \* index_vault runs explored
MaxEdits == 1        \* vault edits explored between runs
MaxN == 2            \* largest result count given on the query command line
MaxUrlLen == 5       \* longest enumerated embedding-server url

\* ------------------------------------------------------ program constants
DefaultChunkSize == 1000
DefaultOverlap == 200
DefaultN == 5        \* scripts/vault/query_vault.py: query(text, n=5)
SkillN == 3          \* skills/query-vault/query_vault.py: query(text, n=3)

\* ------------------------------------------------------------- characters
Letters == {"a", "b"}
Blanks == {" ", "\n"}
Chars == Letters \cup Blanks

\* str.isspace() / the regex class \s, on the characters of the model.
IsSpace(c) == c \in {" ", "\t", "\n", "\r"}

RECURSIVE SeqsUpTo(_, _)
SeqsUpTo(S, n) ==
    IF n = 0 THEN {<<>>}
    ELSE LET shorter == SeqsUpTo(S, n - 1)
         IN shorter \cup {Append(s, c) : s \in {t \in shorter : Len(t) = n - 1}, c \in S}

Texts == SeqsUpTo(Chars, MaxLen)

Repeat(c, n) == [i \in 1..n |-> c]

\* The document of the spec's scenario: "a" * 2500.
ScenarioText == Repeat("a", 2500)

\* ------------------------------------------------------------ str helpers
Max(a, b) == IF a >= b THEN a ELSE b
Min(a, b) == IF a <= b THEN a ELSE b

RECURSIVE LStrip(_)
LStrip(s) == IF s # <<>> /\ IsSpace(Head(s)) THEN LStrip(Tail(s)) ELSE s

RECURSIVE RStrip(_)
RStrip(s) ==
    IF s # <<>> /\ IsSpace(s[Len(s)]) THEN RStrip(SubSeq(s, 1, Len(s) - 1)) ELSE s

\* str.strip()
Strip(s) == RStrip(LStrip(s))

\* What re.sub(r"\s+", " ", s) leaves of position i of s: a character that is
\* not whitespace stays, the first character of a whitespace run becomes one
\* space, the rest of the run disappears.
Emit(s, i) ==
    IF ~IsSpace(s[i]) THEN <<s[i]>>
    ELSE IF i > 1 /\ IsSpace(s[i - 1]) THEN <<>>
    ELSE <<" ">>

RECURSIVE Collapse(_, _, _)
Collapse(s, lo, hi) ==
    IF lo > hi THEN <<>>
    ELSE IF lo = hi THEN Emit(s, lo)
    ELSE LET mid == (lo + hi) \div 2
         IN Collapse(s, lo, mid) \o Collapse(s, mid + 1, hi)

ReSubKeepRuns(s) == [i \in 1..Len(s) |-> IF IsSpace(s[i]) THEN " " ELSE s[i]]

\* re.sub(r"\s+", " ", s)
ReSub(s) == Collapse(s, 1, Len(s))

\* Python's s[start:end] for integers start, end (negative ones count from
\* the end, both are clamped to 0..len(s)).
PyIndex(i, n) == IF i < 0 THEN Max(i + n, 0) ELSE Min(i, n)

Slice(s, start, end) ==
    LET lo == PyIndex(start, Len(s))
        hi == PyIndex(end, Len(s))
    IN IF lo < hi THEN SubSeq(s, lo + 1, hi) ELSE <<>>

\* ---------------------------------------------------------------- chunk_md
NormalizeKeepRuns(text) == ReSubKeepRuns(Strip(text))

\* content = re.sub(r"\s+", " ", content.strip())
Normalize(text) == ReSub(Strip(text))

ChunkIterNoOverlap(content, path, chunk_size, overlap, st) ==
    LET end == st.start + chunk_size
        chunk == Slice(content, st.start, end)
    IN [start |-> end,
        chunks |-> IF Strip(chunk) # <<>> THEN Append(st.chunks, <<chunk, path>>)
                   ELSE st.chunks]

ChunkIterGap(content, path, chunk_size, overlap, st) ==
    LET end == st.start + chunk_size
        chunk == Slice(content, st.start, end)
    IN [start |-> end + overlap,
        chunks |-> IF Strip(chunk) # <<>> THEN Append(st.chunks, <<chunk, path>>)
                   ELSE st.chunks]

\* One iteration of the while loop, on the locals st = [start, chunks].
ChunkIter(content, path, chunk_size, overlap, st) ==
    LET end == st.start + chunk_size
        chunk == Slice(content, st.start, end)
    IN [start |-> end - overlap,
        chunks |-> IF Strip(chunk) # <<>> THEN Append(st.chunks, <<chunk, path>>)
                   ELSE st.chunks]

RECURSIVE ChunkLoop(_, _, _, _, _)
ChunkLoop(content, path, chunk_size, overlap, st) ==
    IF st.start < Len(content)
    THEN ChunkLoop(content, path, chunk_size, overlap,
                   ChunkIter(content, path, chunk_size, overlap, st))
    ELSE st.chunks

\* chunk_md(content, path, chunk_size, overlap), when its loop ends.
chunk_md(text, path, chunk_size, overlap) ==
    ChunkLoop(Normalize(text), path, chunk_size, overlap,
              [start |-> 0, chunks |-> <<>>])

\* ------------------------------------------------------------------ state
VARIABLES
    text,        \* chunk_md: the argument content
    path,        \* chunk_md: the argument path
    chunk_size,  \* chunk_md: the argument chunk_size
    overlap,     \* chunk_md: the argument overlap
    content,     \* chunk_md: the local content, after line 53
    start,       \* chunk_md: the local start
    chunks,      \* chunk_md: the local chunks
    cpc,         \* chunk_md: "call" (line 53 next), "loop" (line 56), "done"
    starts,      \* history: the start offset of every appended chunk
    iters,       \* history: the number of windows taken (line 58)
    vault_exists,\* whether VAULT_PATH exists
    vault,       \* the markdown files: relative path -> state of the file
    store,       \* the collection: id -> [doc, meta]
    ipc,         \* index_vault: "idle" (not running), "loop" (line 73)
    pending,     \* index_vault: the files rglob has not yielded yet
    order,       \* index_vault: the files rglob has yielded, in order
    docs,        \* index_vault: the local docs
    metas,       \* index_vault: the local metas
    ids,         \* index_vault: the local ids
    idx,         \* index_vault: the local idx
    diags,       \* index_vault: the lines written to stderr
    runs,        \* history: one record per finished index_vault run
    edits,       \* history: the number of vault edits so far
    q,           \* the query command that ran last, or NoQuery
    env_server_url, \* the environment variable VAULT_EMBEDDING_SERVER_URL
    env_embed_url,  \* the environment variable VAULT_EMBED_URL
    embed_url,   \* the module constant EMBED_URL
    prev_url,    \* history: EMBED_URL of the start before the last one
    upc          \* "start" (EMBED_URL not set yet), "set", "reset"

cvars == <<text, path, chunk_size, overlap, content, start, chunks, cpc, starts, iters>>

ivars == <<vault_exists, vault, store, ipc, pending, order, docs, metas, ids, idx,
           diags, runs, edits, q>>

uvars == <<env_server_url, env_embed_url, embed_url, prev_url, upc>>

vars == <<cvars, ivars, uvars>>

\* ------------------------------------------------------------ the vault
PathList == <<"a.md", "n/b.md">>

Paths == {PathList[i] : i \in 1..Len(PathList)}

\* A file is absent, cannot be read, or holds one of three documents.
FileStates == {"absent", "unreadable", "blank", "short", "long"}

FileText(fs) ==
    CASE fs = "blank" -> <<" ", "\n">>
      [] fs = "short" -> <<"a", " ", "b">>
      [] fs = "long" -> Repeat("a", LongLen)

NoQuery == [script |-> "none", n |-> 0, raised |-> FALSE, out |-> "none",
            printed |-> 0, exit |-> 0, entries |-> 0]

\* ----------------------------------------------------------- index_vault
MakeIdPathOnly(rel, i) == rel

\* f"{rel}:{idx}"
MakeId(rel, i) == rel \o ":" \o ToString(i)

\* The string with the characters of s: what a str is to the collection.
RECURSIVE StrOfRange(_, _, _)
StrOfRange(s, lo, hi) ==
    IF lo > hi THEN ""
    ELSE IF lo = hi THEN s[lo]
    ELSE LET mid == (lo + hi) \div 2
         IN StrOfRange(s, lo, mid) \o StrOfRange(s, mid + 1, hi)

StrOf(s) == StrOfRange(s, 1, Len(s))

\* The list chunk_md returns, each chunk as a str.
StrChunks(cs) == [k \in 1..Len(cs) |-> <<StrOf(cs[k][1]), cs[k][2]>>]

\* chunk_md(text, rel) for every document the vault can hold and every path
\* (line 77), tabulated.
VaultChunks ==
    [fs \in {"blank", "short", "long"}, rel \in Paths |->
        StrChunks(chunk_md(FileText(fs), rel, DefaultChunkSize, DefaultOverlap))]

\* Lines 77-81: append the chunks cs of file rel to the batch b.
RECURSIVE AppendChunks(_, _, _)
AppendChunks(b, rel, cs) ==
    IF cs = <<>> THEN b
    ELSE AppendChunks([docs |-> Append(b.docs, Head(cs)[1]),
                       metas |-> Append(b.metas, [path |-> rel]),
                       ids |-> Append(b.ids, MakeId(rel, b.idx)),
                       idx |-> b.idx + 1],
                      rel, Tail(cs))

UpsertReplaceAll(st, ds, ms, is) ==
    LET last(id) == CHOOSE j \in 1..Len(is) :
                        is[j] = id /\ \A k \in (j + 1)..Len(is) : is[k] # id
    IN [id \in {is[j] : j \in 1..Len(is)} |->
            [doc |-> ds[last(id)], meta |-> ms[last(id)]]]

\* collection.upsert(documents=docs, metadatas=metas, ids=ids): every id of
\* the batch is inserted or replaced, every other entry is kept.
Upsert(st, ds, ms, is) ==
    LET last(id) == CHOOSE j \in 1..Len(is) :
                        is[j] = id /\ \A k \in (j + 1)..Len(is) : is[k] # id
    IN [id \in DOMAIN st \cup {is[j] : j \in 1..Len(is)} |->
            IF \E j \in 1..Len(is) : is[j] = id
            THEN [doc |-> ds[last(id)], meta |-> ms[last(id)]]
            ELSE st[id]]

Triples(ds, ms, is) ==
    {[id |-> is[j], doc |-> ds[j], meta |-> ms[j]] : j \in 1..Len(is)}

\* Lines 71-83 as a function: the batch after the loop has visited the files
\* of vault v in the order ord, starting from the batch b.
RECURSIVE BatchInOrder(_, _, _)
BatchInOrder(v, ord, b) ==
    IF ord = <<>> THEN b
    ELSE BatchInOrder(v, Tail(ord),
                      IF v[Head(ord)] \in {"absent", "unreadable"} THEN b
                      ELSE AppendChunks(b, Head(ord), VaultChunks[v[Head(ord)], Head(ord)]))

EmptyBatch == [docs |-> <<>>, metas |-> <<>>, ids |-> <<>>, idx |-> 0]

LoopBodyAbortOnError(b, ds, md, rest, fs) ==
    IF fs = "unreadable"
    THEN [batch |-> b, diags |-> Append(ds, "Skip " \o md), pending |-> {}]
    ELSE [batch |-> AppendChunks(b, md, VaultChunks[fs, md]), diags |-> ds,
          pending |-> rest]

\* Lines 74-83: the loop body on file md, whose state is fs, with batch b and
\* stderr lines ds; rest are the files rglob has still to yield.  read_text
\* raises on a file that cannot be read: line 83 reports it and the loop goes
\* on.
LoopBody(b, ds, md, rest, fs) ==
    IF fs = "unreadable"
    THEN [batch |-> b, diags |-> Append(ds, "Skip " \o md), pending |-> rest]
    ELSE [batch |-> AppendChunks(b, md, VaultChunks[fs, md]), diags |-> ds,
          pending |-> rest]

ChunkInputs ==
    [text : Texts, chunk_size : 1..MaxChunk, overlap : 0..MaxChunk]
        \cup {[text |-> ScenarioText, chunk_size |-> DefaultChunkSize,
               overlap |-> DefaultOverlap]}

ChunkIdle ==
    /\ path = "a.md"
    /\ content = <<>>
    /\ start = 0
    /\ chunks = <<>>
    /\ cpc = "call"
    /\ starts = <<>>
    /\ iters = 0

\* No embedding-server URL is configured and EMBED_URL is not set yet.
UrlIdle ==
    /\ env_server_url = <<>>
    /\ env_embed_url = <<>>
    /\ embed_url = <<>>
    /\ prev_url = <<>>
    /\ upc = "start"

IndexIdle ==
    /\ store = <<>>
    /\ ipc = "idle"
    /\ pending = {}
    /\ order = <<>>
    /\ docs = <<>>
    /\ metas = <<>>
    /\ ids = <<>>
    /\ idx = 0
    /\ diags = <<>>
    /\ runs = <<>>
    /\ edits = 0
    /\ q = NoQuery

\* chunk_md is about to be called on one of the enumerated inputs.
ChunkInit ==
    /\ \E inp \in ChunkInputs :
          /\ text = inp.text
          /\ chunk_size = inp.chunk_size
          /\ overlap = inp.overlap
    /\ ChunkIdle
    /\ vault_exists = TRUE
    /\ vault = [p \in Paths |-> "absent"]
    /\ IndexIdle
    /\ UrlIdle

\* Lines 53-55.
ChunkEnter ==
    /\ cpc = "call"
    /\ content' = Normalize(text)
    /\ chunks' = <<>>
    /\ start' = 0
    /\ cpc' = "loop"
    /\ UNCHANGED <<text, path, chunk_size, overlap, starts, iters>>
    /\ UNCHANGED ivars
    /\ UNCHANGED uvars

\* Lines 56-61: the loop test holds, one iteration runs.
ChunkStep ==
    /\ cpc = "loop"
    /\ start < Len(content)
    /\ ~(overlap >= chunk_size /\ iters >= MaxIter)
    /\ LET st == ChunkIter(content, path, chunk_size, overlap,
                           [start |-> start, chunks |-> chunks])
       IN /\ start' = st.start
          /\ chunks' = st.chunks
          /\ starts' = IF Len(st.chunks) > Len(chunks) THEN Append(starts, start)
                       ELSE starts
    /\ iters' = iters + 1
    /\ UNCHANGED <<text, path, chunk_size, overlap, content, cpc>>
    /\ UNCHANGED ivars
    /\ UNCHANGED uvars

\* Lines 56, 62: the loop test fails, chunks is returned.
ChunkReturn ==
    /\ cpc = "loop"
    /\ ~(start < Len(content))
    /\ cpc' = "done"
    /\ UNCHANGED <<text, path, chunk_size, overlap, content, start, chunks, starts, iters>>
    /\ UNCHANGED ivars
    /\ UNCHANGED uvars

ChunkNext == ChunkEnter \/ ChunkStep \/ ChunkReturn

SpecChunk == ChunkInit /\ [][ChunkNext]_vars

\* ------------------------------------------------- the pipeline's actions
\* A vault and an empty collection, no command running.
Init ==
    /\ text = <<>>
    /\ chunk_size = DefaultChunkSize
    /\ overlap = DefaultOverlap
    /\ ChunkIdle
    /\ vault_exists \in BOOLEAN
    /\ vault \in [Paths -> FileStates]
    /\ ~vault_exists => \A p \in Paths : vault[p] = "absent"
    /\ IndexIdle
    /\ UrlIdle

\* The record of a finished run.
RunRecord(code, is, after) ==
    [vault_exists |-> vault_exists, vault |-> vault, order |-> order,
     ids |-> is, diags |-> diags,
     before |-> Cardinality(DOMAIN store), after |-> after, exit |-> code]

\* Lines 66-69: the vault path does not exist, index_vault returns 1.
IndexNoVault ==
    /\ ipc = "idle"
    /\ Len(runs) < MaxRuns
    /\ ~vault_exists
    /\ order' = <<>>
    /\ diags' = <<"Vault path does not exist">>
    /\ runs' = Append(runs, [RunRecord(1, <<>>, Cardinality(DOMAIN store))
                                EXCEPT !.order = <<>>,
                                       !.diags = <<"Vault path does not exist">>])
    /\ q' = NoQuery
    /\ UNCHANGED <<vault_exists, vault, store, ipc, pending, docs, metas, ids, idx, edits>>
    /\ UNCHANGED cvars
    /\ UNCHANGED uvars

\* Lines 66-73: the vault exists, the lists are empty, rglob starts.
IndexStart ==
    /\ ipc = "idle"
    /\ Len(runs) < MaxRuns
    /\ vault_exists
    /\ docs' = <<>>
    /\ metas' = <<>>
    /\ ids' = <<>>
    /\ idx' = 0
    /\ pending' = {p \in Paths : vault[p] # "absent"}
    /\ order' = <<>>
    /\ diags' = <<>>
    /\ ipc' = "loop"
    /\ q' = NoQuery
    /\ UNCHANGED <<vault_exists, vault, store, runs, edits>>
    /\ UNCHANGED cvars
    /\ UNCHANGED uvars

IndexFileUpsertEach ==
    /\ ipc = "loop"
    /\ \E md \in pending :
          \E r \in {LoopBody([docs |-> docs, metas |-> metas, ids |-> ids, idx |-> idx],
                            diags, md, pending \ {md}, vault[md])} :
             /\ pending' = r.pending
             /\ order' = Append(order, md)
             /\ docs' = r.batch.docs
             /\ metas' = r.batch.metas
             /\ ids' = r.batch.ids
             /\ idx' = r.batch.idx
             /\ diags' = r.diags
             /\ store' = Upsert(store, r.batch.docs, r.batch.metas, r.batch.ids)
    /\ UNCHANGED <<vault_exists, vault, ipc, runs, edits, q>>
    /\ UNCHANGED cvars
    /\ UNCHANGED uvars

\* Lines 73-83: rglob yields one of the remaining files (in the order of the
\* directory listing, which the program does not choose) and the loop body
\* runs on it: a file that cannot be read is reported and skipped.
IndexFile ==
    /\ ipc = "loop"
    /\ \E md \in pending :
          \E r \in {LoopBody([docs |-> docs, metas |-> metas, ids |-> ids, idx |-> idx],
                            diags, md, pending \ {md}, vault[md])} :
             /\ pending' = r.pending
             /\ order' = Append(order, md)
             /\ docs' = r.batch.docs
             /\ metas' = r.batch.metas
             /\ ids' = r.batch.ids
             /\ idx' = r.batch.idx
             /\ diags' = r.diags
    /\ UNCHANGED <<vault_exists, vault, store, ipc, runs, edits, q>>
    /\ UNCHANGED cvars
    /\ UNCHANGED uvars

FinishWithoutEmptyCheck(st, ds, ms, is) ==
    IF ds = <<>>
    THEN [store |-> st, exit |-> 1]
    ELSE [store |-> Upsert(st, ds, ms, is), exit |-> 0]

\* Lines 85-92: with no documents nothing is written and index_vault returns
\* 0; otherwise the batch is upserted and index_vault returns 0.
Finish(st, ds, ms, is) ==
    IF ds = <<>>
    THEN [store |-> st, exit |-> 0]
    ELSE [store |-> Upsert(st, ds, ms, is), exit |-> 0]

\* Lines 85-92: rglob is exhausted; nothing to index, or the one upsert.
IndexFinish ==
    /\ ipc = "loop"
    /\ pending = {}
    /\ \E r \in {Finish(store, docs, metas, ids)} :
          /\ store' = r.store
          /\ runs' = Append(runs, RunRecord(r.exit, ids, Cardinality(DOMAIN r.store)))
    /\ docs' = <<>>
    /\ metas' = <<>>
    /\ ids' = <<>>
    /\ idx' = 0
    /\ ipc' = "idle"
    /\ UNCHANGED <<vault_exists, vault, pending, order, diags, edits, q>>
    /\ UNCHANGED cvars
    /\ UNCHANGED uvars

\* Lines 73-83: the process ends inside the loop (line 82 catches Exception
\* only, so a KeyboardInterrupt or a kill ends the run): the lists are lost,
\* line 90 is never reached and no run is completed.
IndexInterrupt ==
    /\ ipc = "loop"
    /\ pending # {}
    /\ docs' = <<>>
    /\ metas' = <<>>
    /\ ids' = <<>>
    /\ idx' = 0
    /\ pending' = {}
    /\ ipc' = "idle"
    /\ UNCHANGED <<vault_exists, vault, store, order, diags, runs, edits, q>>
    /\ UNCHANGED cvars
    /\ UNCHANGED uvars

\* Between runs a file of the vault is added, removed, rewritten or made
\* unreadable.
VaultEdit ==
    /\ ipc = "idle"
    /\ vault_exists
    /\ edits < MaxEdits
    /\ \E p \in Paths, fs \in FileStates :
          /\ fs # vault[p]
          /\ vault' = [vault EXCEPT ![p] = fs]
    /\ edits' = edits + 1
    /\ q' = NoQuery
    /\ UNCHANGED <<vault_exists, store, ipc, pending, order, docs, metas, ids, idx,
                   diags, runs>>
    /\ UNCHANGED cvars
    /\ UNCHANGED uvars

\* ------------------------------------------------------------------ query
QueryCountIgnoreN(n) == Cardinality(DOMAIN store)

\* collection.query(query_texts=[text], n_results=n), when it returns: the
\* number of documents in results["documents"][0], which are the n nearest
\* entries, or all entries when the collection holds fewer than n.
QueryCount(n) == Min(n, Cardinality(DOMAIN store))

\* scripts/vault/query_vault.py: query(text, n), to the end of the process.
query_scripts(n, raised) ==
    IF raised
    THEN [out |-> "error", printed |-> 0, exit |-> 1]
    ELSE IF QueryCount(n) = 0
         THEN [out |-> "no_results", printed |-> 0, exit |-> 0]
         ELSE [out |-> "results", printed |-> QueryCount(n), exit |-> 0]

\* skills/query-vault/query_vault.py: query(text, n), to the end of the
\* process.
query_skill(n, raised) ==
    IF raised
    THEN [out |-> "error", printed |-> 0, exit |-> 0]
    ELSE IF QueryCount(n) = 0
         THEN [out |-> "no_results", printed |-> 0, exit |-> 0]
         ELSE [out |-> "results", printed |-> QueryCount(n), exit |-> 0]

QueryRecord(script, n, raised, r) ==
    [script |-> script, n |-> n, raised |-> raised, out |-> r.out,
     printed |-> r.printed, exit |-> r.exit,
     entries |-> Cardinality(DOMAIN store)]

\* python3 scripts/vault/query_vault.py "terms" [n]: n is the second argument,
\* 5 without one; the embedding or store call raises or returns.
QueryScripts ==
    /\ ipc = "idle"
    /\ \E n \in (1..MaxN) \cup {DefaultN}, raised \in BOOLEAN :
          q' = QueryRecord("scripts", n, raised, query_scripts(n, raised))
    /\ UNCHANGED <<vault_exists, vault, store, ipc, pending, order, docs, metas, ids,
                   idx, diags, runs, edits>>
    /\ UNCHANGED cvars
    /\ UNCHANGED uvars

\* python3 skills/query-vault/query_vault.py "terms": n is always 3.
QuerySkill ==
    /\ ipc = "idle"
    /\ \E raised \in BOOLEAN :
          q' = QueryRecord("skill", SkillN, raised, query_skill(SkillN, raised))
    /\ UNCHANGED <<vault_exists, vault, store, ipc, pending, order, docs, metas, ids,
                   idx, diags, runs, edits>>
    /\ UNCHANGED cvars
    /\ UNCHANGED uvars

Next ==
    \/ IndexNoVault
    \/ IndexStart
    \/ IndexFile
    \/ IndexFinish
    \/ IndexInterrupt
    \/ VaultEdit
    \/ QueryScripts
    \/ QuerySkill

Spec == Init /\ [][Next]_vars

\* ------------------------------------------------------- _default_embed_url
UrlChars == {"h", "/", "v", "1"}

Urls == SeqsUpTo(UrlChars, MaxUrlLen)

\* "/v1"
V1 == <<"/", "v", "1">>

\* "http://127.0.0.1:8080/v1"
DefaultEmbedUrl ==
    <<"h", "t", "t", "p", ":", "/", "/", "1", "2", "7", ".", "0", ".", "0", ".", "1",
      ":", "8", "0", "8", "0", "/", "v", "1">>

\* s.endswith(suf)
EndsWith(s, suf) ==
    /\ Len(s) >= Len(suf)
    /\ SubSeq(s, Len(s) - Len(suf) + 1, Len(s)) = suf

\* s.rstrip("/")
RECURSIVE RStripSlash(_)
RStripSlash(s) ==
    IF s # <<>> /\ s[Len(s)] = "/" THEN RStripSlash(SubSeq(s, 1, Len(s) - 1)) ELSE s

\* a or b, for two str
PyOr(a, b) == IF a # <<>> THEN a ELSE b

\* _default_embed_url() with VAULT_EMBEDDING_SERVER_URL = e1 and
\* VAULT_EMBED_URL = e2 (both <<>> when unset): the test endswith("/v1") is
\* made on the configured url, before its trailing slashes are stripped.
default_embed_url(e1, e2) ==
    LET url == PyOr(e1, e2)
    IN IF url # <<>>
       THEN (IF ~EndsWith(url, V1) THEN RStripSlash(url) \o V1 ELSE url)
       ELSE DefaultEmbedUrl

UrlInit ==
    /\ env_server_url \in Urls
    /\ env_embed_url \in {<<>>, <<"h">>, <<"h", "/">>}
    /\ embed_url = <<>>
    /\ prev_url = <<>>
    /\ upc = "start"
    /\ text = <<>>
    /\ chunk_size = DefaultChunkSize
    /\ overlap = DefaultOverlap
    /\ ChunkIdle
    /\ vault_exists = TRUE
    /\ vault = [p \in Paths |-> "absent"]
    /\ IndexIdle

\* A script is started: EMBED_URL = _default_embed_url().
UrlLoad ==
    /\ upc = "start"
    /\ embed_url' = default_embed_url(env_server_url, env_embed_url)
    /\ upc' = "set"
    /\ UNCHANGED <<env_server_url, env_embed_url, prev_url>>
    /\ UNCHANGED cvars
    /\ UNCHANGED ivars

\* The url the script computed is configured as the embedding-server url and
\* the script is started again.
UrlReload ==
    /\ upc = "set"
    /\ env_server_url' = embed_url
    /\ prev_url' = embed_url
    /\ embed_url' = default_embed_url(embed_url, env_embed_url)
    /\ upc' = "reset"
    /\ UNCHANGED env_embed_url
    /\ UNCHANGED cvars
    /\ UNCHANGED ivars

UrlNext ==
    \/ UrlLoad
    \/ UrlReload

SpecUrl == UrlInit /\ [][UrlNext]_vars

\* ------------------------------------------------- claims about chunk_md
\* The window of the k-th returned chunk covers offset p of content.
Covers(k, p) == starts[k] <= p /\ p < starts[k] + Len(chunks[k][1])

Covered(p) == \E k \in 1..Len(chunks) : Covers(k, p)

\* Every returned chunk is the text of content at its recorded start offset.
ChunksAtStarts ==
    /\ Len(starts) = Len(chunks)
    /\ \A k \in 1..Len(chunks) :
          chunks[k] = <<SubSeq(content, starts[k] + 1, starts[k] + Len(chunks[k][1])), path>>

\* Supporting fact for C4: with overlap >= chunk_size and a non-empty
\* normalized text, chunk_md never returns.
ChunkNeverReturns ==
    (overlap >= chunk_size /\ content # <<>>) => cpc # "done"

\* C4: on a non-empty normalized text with overlap >= chunk_size, chunk_md is
\* rejected before any window is taken.
C4_OverlapRejected ==
    (cpc # "call" /\ overlap >= chunk_size /\ content # <<>>) => iters = 0

\* C5 as stated: with 0 <= overlap < chunk_size the returned chunks cover
\* every character position of the normalized text, the first starts at 0 and
\* the last ends at its length.
C5_CoverageEveryPosition ==
    (cpc = "done" /\ overlap < chunk_size) =>
        /\ ChunksAtStarts
        /\ \A p \in 0..(Len(content) - 1) : Covered(p)
        /\ content # <<>> =>
              /\ chunks # <<>>
              /\ starts[1] = 0
              /\ starts[Len(starts)] + Len(chunks[Len(chunks)][1]) = Len(content)

\* C5 amended: with 0 <= overlap < chunk_size the returned chunks cover every
\* position of the normalized text that holds a non-space character, and
\* every position when chunk_size >= 2; on a non-empty normalized text the
\* first chunk starts at 0 and the last ends at its length.
C5_Coverage ==
    (cpc = "done" /\ overlap < chunk_size) =>
        /\ ChunksAtStarts
        /\ \A p \in 0..(Len(content) - 1) :
              (content[p + 1] # " " \/ chunk_size >= 2) => Covered(p)
        /\ content # <<>> =>
              /\ chunks # <<>>
              /\ starts[1] = 0
              /\ starts[Len(starts)] + Len(chunks[Len(chunks)][1]) = Len(content)

\* A run that discarded a window holding only a space, and returned chunks
\* on both sides of it.
C5_Witness ==
    /\ cpc = "done"
    /\ overlap < chunk_size
    /\ Len(chunks) >= 2
    /\ iters > Len(chunks)

NoSpaceIn(s) == \A i \in 1..Len(s) : ~IsSpace(s[i])

\* The start offsets k*(S-O) below L, in increasing order.
WindowStarts(L, S, O) ==
    LET n == Cardinality({k \in 0..L : k * (S - O) < L})
    IN [k \in 1..n |-> (k - 1) * (S - O)]

\* C6: on a normalized text of length L without whitespace, with
\* overlap < chunk_size, chunk_md returns exactly one chunk per start offset
\* k*(S-O) < L, in increasing order, each the characters from its start up to
\* min(start+S, L); for L=2500, S=1000, O=200 the starts are 0, 800, 1600,
\* 2400, the last chunk has length 100 and there are 4 chunks.
C6_Windows ==
    (cpc = "done" /\ overlap < chunk_size /\ NoSpaceIn(content)) =>
        LET L == Len(content)
            ws == WindowStarts(L, chunk_size, overlap)
        IN /\ starts = ws
           /\ Len(chunks) = Len(ws)
           /\ \A k \in 1..Len(ws) :
                 chunks[k] = <<SubSeq(content, ws[k] + 1, Min(ws[k] + chunk_size, L)), path>>
           /\ (L = 2500 /\ chunk_size = DefaultChunkSize
                   /\ overlap = DefaultOverlap) =>
                 /\ starts = <<0, 800, 1600, 2400>>
                 /\ Len(chunks) = 4
                 /\ Len(chunks[4][1]) = 100

\* The scenario's run: 2500 characters, 1000 per window, 200 of overlap.
C6_Witness ==
    /\ cpc = "done"
    /\ text = ScenarioText
    /\ chunk_size = DefaultChunkSize
    /\ overlap = DefaultOverlap
    /\ Len(chunks) = 4

\* The non-whitespace tokens of s, in order (cur is the token being read).
RECURSIVE TokensFrom(_, _, _)
TokensFrom(s, cur, acc) ==
    IF s = <<>> THEN (IF cur = <<>> THEN acc ELSE Append(acc, cur))
    ELSE IF IsSpace(Head(s))
         THEN TokensFrom(Tail(s), <<>>, IF cur = <<>> THEN acc ELSE Append(acc, cur))
         ELSE TokensFrom(Tail(s), Append(cur, Head(s)), acc)

Tokens(s) == TokensFrom(s, <<>>, <<>>)

RECURSIVE JoinSpace(_)
JoinSpace(toks) ==
    IF toks = <<>> THEN <<>>
    ELSE IF Len(toks) = 1 THEN toks[1]
    ELSE toks[1] \o <<" ">> \o JoinSpace(Tail(toks))

\* The text with the tokens of s and one space between neighbours: it has the
\* tokens of s and differs from s only in its whitespace runs.
SingleSpaced(s) == JoinSpace(Tokens(s))

\* C7: texts with the same tokens that differ only in their whitespace runs
\* get the same ordered chunk texts: every text gets the chunks of the
\* single-spaced text with its tokens, so any two with the same tokens agree.
C7_WhitespaceLayout ==
    (cpc = "done" /\ Len(text) <= MaxLen + 1) =>
        chunks = chunk_md(SingleSpaced(text), path, chunk_size, overlap)

\* A returned run on a text of two tokens whose whitespace is not one space.
C7_Witness ==
    /\ cpc = "done"
    /\ Len(text) <= MaxLen + 1
    /\ Len(Tokens(text)) = 2
    /\ text # SingleSpaced(text)
    /\ Len(chunks) >= 2

\* ------------------------------------------- claims about index_vault
\* The loop of index_vault has visited every file: the batch is complete.
BatchComplete == ipc = "loop" /\ pending = {}

\* The number of chunks of the same document before position j of the batch.
PositionInDoc(j) == Cardinality({i \in 1..(j - 1) : metas[i].path = metas[j].path})

\* C1: the k-th chunk (from 0) of the document with relative path p is put in
\* the batch under the id p:k, whatever other documents the vault holds.
C1_IdRestartsPerDocument ==
    \A j \in 1..Len(ids) :
        LET p == metas[j].path
            k == PositionInDoc(j)
        IN /\ docs[j] = VaultChunks[vault[p], p][k + 1][1]
           /\ ids[j] = p \o ":" \o ToString(k)

\* C2: two runs in a row over an unchanged vault leave the same number of
\* entries in the collection, whatever order each run visits the files in.
C2_IdempotentReindex ==
    \A i \in 1..(Len(runs) - 1) :
        (/\ runs[i].vault = runs[i + 1].vault
         /\ runs[i].vault_exists = runs[i + 1].vault_exists
         /\ runs[i].exit = 0
         /\ runs[i + 1].exit = 0)
            => runs[i + 1].after = runs[i].after

\* C3: for a fixed vault content the upserted (id, text, metadata) triples do
\* not depend on the order the files are visited in: the complete batch is
\* the batch of the run that visits the files in the order of PathList, and
\* any two finished runs over the same vault content used the same ids.
C3_OrderIndependentIds ==
    /\ BatchComplete =>
          LET ref == BatchInOrder(vault, PathList, EmptyBatch)
          IN Triples(docs, metas, ids) = Triples(ref.docs, ref.metas, ref.ids)
    /\ \A i, j \in 1..Len(runs) :
          (runs[i].vault = runs[j].vault /\ runs[i].exit = 0 /\ runs[j].exit = 0)
              => {runs[i].ids[k] : k \in 1..Len(runs[i].ids)}
                     = {runs[j].ids[k] : k \in 1..Len(runs[j].ids)}

\* C8: the ids of one run's batch are pairwise distinct, so the upsert of a
\* finished run wrote one entry per chunk.
C8_IdsDistinct ==
    /\ \A i, j \in 1..Len(ids) : i # j => ids[i] # ids[j]
    /\ \A r \in 1..Len(runs) :
          Cardinality({runs[r].ids[k] : k \in 1..Len(runs[r].ids)}) = Len(runs[r].ids)

\* A complete batch with the two chunks of the long document and a chunk of
\* another document.
C8_Witness ==
    /\ BatchComplete
    /\ Len(ids) >= 3
    /\ \E i, j \in 1..Len(ids) : i # j /\ metas[i].path = metas[j].path
    /\ \E i, j \in 1..Len(ids) : metas[i].path # metas[j].path

C10_QueryFailureExitsNonZero ==
    q.raised => (q.out = "error" /\ q.exit # 0)

\* The texts put in the batch for the file with relative path p, in order.
RECURSIVE DocsOfFrom(_, _)
DocsOfFrom(p, j) ==
    IF j > Len(docs) THEN <<>>
    ELSE (IF metas[j].path = p THEN <<docs[j]>> ELSE <<>>) \o DocsOfFrom(p, j + 1)

DocsOf(p) == DocsOfFrom(p, 1)

ChunkTexts(cs) == [k \in 1..Len(cs) |-> cs[k][1]]

HasDocument(fs) == fs \in {"short", "long"}

\* C11: a file whose read fails is skipped and the run goes on: the complete
\* batch holds every chunk of every readable, non-empty file, wherever the
\* failing file came in the enumeration, and the run still exits with code 0.
C11_ReadFailureSkipped ==
    /\ (BatchComplete /\ \E p \in Paths : vault[p] = "unreadable") =>
          \A p \in Paths :
              HasDocument(vault[p]) => DocsOf(p) = ChunkTexts(VaultChunks[vault[p], p])
    /\ \A r \in 1..Len(runs) :
          (runs[r].vault_exists /\ \E p \in Paths : runs[r].vault[p] = "unreadable")
              => /\ runs[r].exit = 0
                 /\ \A k \in 1..Len(runs[r].ids) : runs[r].ids[k] \in DOMAIN store

\* A complete batch of a run that met the unreadable file first and then took
\* both chunks of the long document.
C11_Witness ==
    /\ BatchComplete
    /\ Len(order) = 2
    /\ vault[order[1]] = "unreadable"
    /\ vault[order[2]] = "long"
    /\ Len(docs) = 2

\* A vault that yields no document: every file is missing, unreadable or
\* holds only whitespace.
NoDocuments(v) == \A p \in Paths : ~HasDocument(v[p])

RunEnds == Len(runs') = Len(runs) + 1

LastRun == runs'[Len(runs')]

\* C12 as stated: a run on a vault that yields no document, a vault whose
\* root is missing included, writes no chunk, leaves the store as it was and
\* exits with code 0.
C12_NoDocumentsExitZero ==
    [][(RunEnds /\ NoDocuments(vault)) =>
          /\ LastRun.ids = <<>>
          /\ store' = store
          /\ LastRun.exit = 0]_vars

\* C12, amended: as above when the vault root exists; when the root does not
\* exist the run writes nothing, reports it and exits with code 1.
C12_NoDocuments ==
    [][(RunEnds /\ NoDocuments(vault)) =>
          /\ LastRun.ids = <<>>
          /\ store' = store
          /\ LastRun.exit = (IF vault_exists THEN 0 ELSE 1)
          /\ ~vault_exists => LastRun.diags = <<"Vault path does not exist">>]_vars

\* A second run that found a blank file only, over a store that the first
\* run had filled: the store kept its entry and the run returned 0.
C12_Witness ==
    /\ Len(runs) = 2
    /\ runs[2].vault_exists
    /\ NoDocuments(runs[2].vault)
    /\ \E p \in Paths : runs[2].vault[p] = "blank"
    /\ runs[2].exit = 0
    /\ runs[2].before = 1
    /\ runs[2].after = 1
    /\ ipc = "idle"

\* The entries the collection st holds for the document with relative path p.
EntriesOf(st, p) ==
    {[id |-> id, doc |-> st[id].doc] : id \in {i \in DOMAIN st : st[i].meta.path = p}}

NumChunks(fs, p) == IF HasDocument(fs) THEN Len(VaultChunks[fs, p]) ELSE 0

\* Since the run before, the document p was rewritten to another number of
\* chunks and no other file was touched.
EditedSince(prev, p) ==
    /\ HasDocument(prev.vault[p])
    /\ HasDocument(vault[p])
    /\ NumChunks(prev.vault[p], p) # NumChunks(vault[p], p)
    /\ \A o \in Paths \ {p} : prev.vault[o] = vault[o]

\* C13: when one document of an indexed vault was edited to another number of
\* chunks and the vault is indexed again, with the files visited in the same
\* order, the upsert leaves the entries of every unedited document as they
\* were: same ids, same texts, no entry under a further id.
C13_UneditedEntriesKept ==
    [][(/\ RunEnds
        /\ vault_exists
        /\ Len(runs) >= 1)
       => LET prev == runs[Len(runs)]
          IN \A p \in Paths :
                (prev.exit = 0 /\ prev.order = order /\ EditedSince(prev, p))
                   => \A o \in Paths \ {p} :
                         HasDocument(vault[o]) => EntriesOf(store', o) = EntriesOf(store, o)]_vars

\* C14: the collection changes only in the step that ends a run, after rglob
\* is exhausted, so a run writes it at most once; a run that stops inside the
\* loop leaves the collection as it found it.
C14_SingleUpsertAtEnd ==
    [][/\ store' # store => (ipc = "loop" /\ pending = {} /\ ipc' = "idle" /\ RunEnds)
       /\ (ipc = "loop" /\ ~RunEnds) => store' = store]_vars

\* A first run that had read a document and stopped before the upsert: the
\* collection is still empty.
C14_Witness ==
    /\ ipc = "idle"
    /\ runs = <<>>
    /\ order # <<>>
    /\ HasDocument(vault[order[1]])
    /\ store = <<>>

\* The run reported the file with relative path p on stderr.
Diagnosed(p) == \E k \in 1..Len(diags) : diags[k] = "Skip " \o p

\* C15: when rglob is exhausted, every file of the vault that put no chunk in
\* the batch, unreadable or empty after normalisation, was reported on stderr
\* by a line that names it.
C15_EverySkipDiagnosed ==
    BatchComplete =>
        \A p \in Paths :
            (vault[p] # "absent" /\ DocsOf(p) = <<>>) => Diagnosed(p)

\* C16: no step of an index run, of a query or of an edit of the vault takes
\* an id out of the collection.
C16_IdsNeverRemoved ==
    [][DOMAIN store \subseteq DOMAIN store']_vars

\* A document was indexed, then removed from the vault, and the vault was
\* indexed again with another document in it: the collection still holds an
\* entry of the removed file.
C16_Witness ==
    /\ Len(runs) = 2
    /\ ipc = "idle"
    /\ runs[2].ids # <<>>
    /\ \E p \in Paths :
          /\ HasDocument(runs[1].vault[p])
          /\ runs[2].vault[p] = "absent"
          /\ EntriesOf(store, p) # {}

\* C17: for a configured, non-empty url, EMBED_URL ends with "/v1", not with
\* "/v1/v1" and not with a slash; normalising EMBED_URL again returns it
\* unchanged; a configured url that ends with "/v1/" does not give one that
\* ends with "/v1/v1".
C17_UrlNormalized ==
    (upc # "start" /\ PyOr(env_server_url, env_embed_url) # <<>>) =>
        /\ EndsWith(embed_url, V1)
        /\ ~EndsWith(embed_url, V1 \o V1)
        /\ embed_url[Len(embed_url)] # "/"
        /\ upc = "reset" => embed_url = prev_url
        /\ EndsWith(PyOr(env_server_url, env_embed_url), V1 \o <<"/">>)
              => ~EndsWith(embed_url, V1 \o V1)

====
